---- MODULE Spec2Model ----
(***************************************************************************)
(* Model of the four cost-report scripts of L2_Benchmark:                  *)
(*   data_analysis/avg_cost.py    analyze_gas_costs                        *)
(*   data_analysis/contract.py    create_line_charts                       *)
(*   hardhat/panda.py             generate_cost_visualizations             *)
(*   data_analysis/deployment.py  module-level script                      *)
(* Every run is one sequential program: pc is its position, df the loaded  *)
(* table, out the lines printed so far and png the image files written so  *)
(* far.  Costs are exact rationals (n/d); NaN and +-inf are explicit       *)
(* values with the IEEE rules pandas applies (NaN is skipped by sum and    *)
(* mean, x/0 is +-inf, 0/0 is NaN).  Binary rounding is not modelled.      *)
(***************************************************************************)
EXTENDS Integers, Sequences, FiniteSets, TLC

VARIABLES script, fileExists, csv, pc, exc, bound, out, png, df,
          pivot_data, network_avg,
          pivot_execution, total_cost_by_function, pivot_deployment,
          line_data, variation,
          ethereum_cost_map, comparison_df, formatted_table,
          total_ethereum_cost, average_ethereum_cost,
          network_avg_costs, final_summary_df

vars == <<script, fileExists, csv, pc, exc, bound, out, png, df,
          pivot_data, network_avg,
          pivot_execution, total_cost_by_function, pivot_deployment,
          line_data, variation,
          ethereum_cost_map, comparison_df, formatted_table,
          total_ethereum_cost, average_ethereum_cost,
          network_avg_costs, final_summary_df>>

(* Largest number of data rows of an input CSV file. *)
MaxRows == 2

(***************************************************************************)
(* Floating-point values.                                                  *)
(***************************************************************************)
Abs(x) == IF x < 0 THEN -x ELSE x

RECURSIVE Gcd(_, _)
Gcd(a, b) == IF b = 0 THEN a ELSE Gcd(b, a % b)

NaN == [k |-> "nan", n |-> 0, d |-> 1]
PosInf == [k |-> "inf", n |-> 1, d |-> 1]
NegInf == [k |-> "inf", n |-> -1, d |-> 1]

(* The rational n/d (d # 0) in lowest terms with a positive denominator. *)
Rat(n, d) ==
    LET g == Gcd(Abs(n), Abs(d))
        s == IF d < 0 THEN -1 ELSE 1
    IN  [k |-> "num", n |-> (s * n) \div g, d |-> Abs(d) \div g]

Num(i) == Rat(i, 1)
Zero == Num(0)

IsNum(x) == x.k = "num"
IsNaN(x) == x.k = "nan"
IsInf(x) == x.k = "inf"

FNeg(x) == IF IsNum(x) THEN Rat(-x.n, x.d)
           ELSE IF IsInf(x) THEN [x EXCEPT !.n = -x.n]
           ELSE NaN

FAdd(x, y) ==
    IF IsNaN(x) \/ IsNaN(y) THEN NaN
    ELSE IF IsInf(x) /\ IsInf(y) THEN (IF x.n = y.n THEN x ELSE NaN)
    ELSE IF IsInf(x) THEN x
    ELSE IF IsInf(y) THEN y
    ELSE Rat(x.n * y.d + y.n * x.d, x.d * y.d)

FSub(x, y) == FAdd(x, FNeg(y))

Sign(i) == IF i < 0 THEN -1 ELSE IF i > 0 THEN 1 ELSE 0

FMul(x, y) ==
    IF IsNaN(x) \/ IsNaN(y) THEN NaN
    ELSE IF IsInf(x) \/ IsInf(y)
         THEN (IF Sign(x.n) * Sign(y.n) = 0 THEN NaN
               ELSE IF Sign(x.n) * Sign(y.n) > 0 THEN PosInf ELSE NegInf)
    ELSE Rat(x.n * y.n, x.d * y.d)

(* numpy float division: no exception, x/0 = +-inf, 0/0 = NaN. *)
FDiv(x, y) ==
    IF IsNaN(x) \/ IsNaN(y) THEN NaN
    ELSE IF IsInf(x) /\ IsInf(y) THEN NaN
    ELSE IF IsInf(x) THEN (IF y.n < 0 THEN FNeg(x) ELSE x)
    ELSE IF IsInf(y) THEN Zero
    ELSE IF y.n = 0
         THEN (IF x.n = 0 THEN NaN ELSE IF x.n > 0 THEN PosInf ELSE NegInf)
    ELSE Rat(x.n * y.d, x.d * y.n)

(* x < y and x <= y on floats; every comparison with NaN is false. *)
FLt(x, y) ==
    IF IsNaN(x) \/ IsNaN(y) THEN FALSE
    ELSE IF IsInf(x) THEN x.n < 0 /\ ~(IsInf(y) /\ y.n < 0)
    ELSE IF IsInf(y) THEN y.n > 0
    ELSE x.n * y.d < y.n * x.d

FLe(x, y) == ~IsNaN(x) /\ ~IsNaN(y) /\ (x = y \/ FLt(x, y))

(* Series.sum(): NaN entries are skipped, the empty sum is 0. *)
RECURSIVE SumSeq(_)
SumSeq(s) ==
    IF s = <<>> THEN Zero
    ELSE IF IsNaN(s[1]) THEN SumSeq(Tail(s))
    ELSE FAdd(s[1], SumSeq(Tail(s)))

Valid(s) == SelectSeq(s, LAMBDA x : ~IsNaN(x))

(* Series.mean(): NaN entries are skipped, no valid entry gives NaN. *)
MeanSeq(s) ==
    IF Valid(s) = <<>> THEN NaN
    ELSE FDiv(SumSeq(s), Num(Len(Valid(s))))

(***************************************************************************)
(* Text of a CSV cost field, and its conversion to a number.               *)
(***************************************************************************)
DigitVal == ("0" :> 0) @@ ("1" :> 1) @@ ("2" :> 2) @@ ("3" :> 3) @@ ("4" :> 4)
            @@ ("5" :> 5) @@ ("6" :> 6) @@ ("7" :> 7) @@ ("8" :> 8) @@ ("9" :> 9)

DigitChars == DOMAIN DigitVal

RECURSIVE Pow10(_)
Pow10(e) == IF e = 0 THEN 1 ELSE 10 * Pow10(e - 1)

Unsigned(s) == IF s # <<>> /\ s[1] \in {"-", "+"} THEN Tail(s) ELSE s

(* The texts float() accepts: optional sign, digits, at most one point. *)
IsFloatText(s) ==
    LET u == Unsigned(s)
    IN  /\ \A i \in 1..Len(u) : u[i] \in DigitChars \cup {"."}
        /\ Cardinality({i \in 1..Len(u) : u[i] = "."}) <= 1
        /\ \E i \in 1..Len(u) : u[i] \in DigitChars

RECURSIVE DigitsValue(_, _)
DigitsValue(u, acc) ==
    IF u = <<>> THEN acc
    ELSE IF u[1] = "." THEN DigitsValue(Tail(u), acc)
    ELSE DigitsValue(Tail(u), 10 * acc + DigitVal[u[1]])

Decimals(u) ==
    IF \E i \in 1..Len(u) : u[i] = "."
    THEN Len(u) - (CHOOSE i \in 1..Len(u) : u[i] = ".")
    ELSE 0

FloatOf(s) ==
    LET u == Unsigned(s)
        sg == IF s # <<>> /\ s[1] = "-" THEN -1 ELSE 1
    IN  Rat(sg * DigitsValue(u, 0), Pow10(Decimals(u)))

(* Texts that read_csv turns into NaN (its default na_values). *)
NaTokens == { <<>>, <<"N", "/", "A">>, <<"N", "A">>, <<"N", "a", "N">>,
              <<"n", "a", "n">>, <<"n", "u", "l", "l">> }

Str(s) == [k |-> "str", s |-> s]
IsStr(x) == x.k = "str"

(* One cell of the cost column as read_csv parses it on its own. *)
ParseCell(t) ==
    IF t \in NaTokens THEN NaN
    ELSE IF IsFloatText(t) THEN FloatOf(t)
    ELSE Str(t)

(* pd.read_csv: a cost column whose cells are all numbers or NA becomes a   *)
(* float column; otherwise it is an object column that keeps the text of    *)
(* every cell that is not NA.                                               *)
ReadCsv(rows) ==
    LET numeric == \A i \in 1..Len(rows) : ~IsStr(ParseCell(rows[i].cost))
    IN  [i \in 1..Len(rows) |->
            [rows[i] EXCEPT !.cost =
                IF numeric \/ rows[i].cost \in NaTokens
                THEN ParseCell(rows[i].cost)
                ELSE Str(rows[i].cost)]]

(* pd.to_numeric(errors='coerce') on one cell. *)
ToNumericCoerce(c) ==
    IF ~IsStr(c) THEN c
    ELSE IF IsFloatText(c.s) THEN FloatOf(c.s)
    ELSE NaN

(* .replace({'\$': ''}, regex=True) on one cell: only text cells change. *)
StripDollar(c) ==
    IF IsStr(c) THEN Str(SelectSeq(c.s, LAMBDA ch : ch # "$")) ELSE c

(* astype(float) on one cell: TRUE when float() raises ValueError. *)
AsFloatRaises(c) == IsStr(c) /\ ~IsFloatText(c.s)

AsFloat(c) == IF IsStr(c) THEN FloatOf(c.s) ELSE c

(***************************************************************************)
(* Labels.  Python compares strings by code point; LabelOrder lists the    *)
(* labels of the model in that order.                                      *)
(***************************************************************************)
LabelOrder == << "Arbitrum", "DAO", "ERC1155", "ERC20", "ERC721", "Ethereum",
                 "Polygon", "Proxy", "Vesting", "deployment", "mint",
                 "transfer" >>

LabelRank(a) == CHOOSE i \in 1..Len(LabelOrder) : LabelOrder[i] = a

LabelLt(a, b) == LabelRank(a) < LabelRank(b)

(* The labels of set S as a sequence in ascending order (groupby sort=True). *)
RECURSIVE SortedLabels(_)
SortedLabels(S) ==
    IF S = {} THEN <<>>
    ELSE LET m == CHOOSE a \in S : \A b \in S : a = b \/ LabelLt(a, b)
         IN  <<m>> \o SortedLabels(S \ {m})

(* Series.unique(): the distinct values in order of first appearance. *)
RECURSIVE Unique(_)
Unique(s) ==
    IF s = <<>> THEN <<>>
    ELSE LET r == Unique(SubSeq(s, 1, Len(s) - 1))
         IN  IF \E i \in 1..Len(r) : r[i] = s[Len(s)] THEN r
             ELSE Append(r, s[Len(s)])

Range(s) == {s[i] : i \in 1..Len(s)}

Column(t, c) == [i \in 1..Len(t) |-> t[i][c]]

Costs(t) == [i \in 1..Len(t) |-> t[i].cost]

(***************************************************************************)
(* Grouping and pivoting.  A table is a sequence of rows                    *)
(* [Network, Contract, Function, cost]; Function is the column 'Function'  *)
(* or 'Method', cost the column 'usd avg', 'USD Avg' or                    *)
(* 'Est. Deployment Cost (USD)'.                                           *)
(***************************************************************************)
(* The cost column of one group of groupby([rk, ck]). *)
GroupCosts(t, rk, ck, p) ==
    Costs(SelectSeq(t, LAMBDA r : r[rk] = p[1] /\ r[ck] = p[2]))

KeyPairs(t, rk, ck) == {<<t[i][rk], t[i][ck]>> : i \in 1..Len(t)}

(* groupby([rk, ck])[cost].sum(): one value per observed key pair. *)
GroupSum2(t, rk, ck) ==
    [p \in KeyPairs(t, rk, ck) |-> SumSeq(GroupCosts(t, rk, ck, p))]

(* groupby([rk, ck])[cost].mean(): one value per observed key pair. *)
GroupMean2(t, rk, ck) ==
    [p \in KeyPairs(t, rk, ck) |-> MeanSeq(GroupCosts(t, rk, ck, p))]

EmptyPivot == [index |-> <<>>, columns |-> <<>>, cell |-> <<>>]

(* unstack: the matrix of a two-key grouping; a key pair without a group   *)
(* gets NaN.                                                               *)
Unstack(g) ==
    LET idx == SortedLabels({p[1] : p \in DOMAIN g})
        cols == SortedLabels({p[2] : p \in DOMAIN g})
    IN  [index |-> idx, columns |-> cols,
         cell |-> [p \in Range(idx) \X Range(cols) |->
                      IF p \in DOMAIN g THEN g[p] ELSE NaN]]

(* DataFrame.fillna(v) on a pivot matrix. *)
FillNa(pv, v) ==
    [pv EXCEPT !.cell = [p \in DOMAIN pv.cell |->
                            IF IsNaN(pv.cell[p]) THEN v ELSE pv.cell[p]]]

(* DataFrame.pivot(index=rk, columns=ck, values=cost) raises ValueError    *)
(* ("Index contains duplicate entries, cannot reshape") when two rows      *)
(* share a key pair.                                                       *)
PivotRaises(t, rk, ck) ==
    \E i, j \in 1..Len(t) : i # j /\ t[i][rk] = t[j][rk] /\ t[i][ck] = t[j][ck]

Pivot(t, rk, ck) ==
    Unstack([p \in {<<t[i][rk], t[i][ck]>> : i \in 1..Len(t)} |->
                t[CHOOSE i \in 1..Len(t) : <<t[i][rk], t[i][ck]>> = p].cost])

(* PivotTableMean with aggfunc='sum'. *)
PivotTableMean_Sum(t, rk, ck) ==
    LET g == GroupSum2(t, rk, ck)
        keep == {p \in DOMAIN g : ~IsNaN(g[p])}
    IN  Unstack([p \in keep |-> g[p]])

(* pivot_table(values=cost, index=rk, columns=ck, aggfunc='mean'): groups  *)
(* whose mean is NaN are dropped before the reshape (dropna=True).         *)
PivotTableMean(t, rk, ck) ==
    LET g == GroupMean2(t, rk, ck)
        keep == {p \in DOMAIN g : ~IsNaN(g[p])}
    IN  Unstack([p \in keep |-> g[p]])

(* reset_index() of a two-key grouping: rows in ascending key order. *)
RECURSIVE GroupRows(_, _)
GroupRows(g, keys) ==
    IF keys = {} THEN <<>>
    ELSE LET m == CHOOSE p \in keys : \A q \in keys :
                      \/ p = q
                      \/ LabelLt(p[1], q[1])
                      \/ (p[1] = q[1] /\ LabelLt(p[2], q[2]))
         IN  <<[Function |-> m[1], Network |-> m[2], cost |-> g[m]]>>
             \o GroupRows(g, keys \ {m})

(***************************************************************************)
(* Inputs.                                                                 *)
(***************************************************************************)
Scripts == {"avg_cost", "contract", "panda", "deployment"}

T_5 == <<"5">>
T_10 == <<"1", "0">>
T_0 == <<"0">>
T_neg5 == <<"-", "5">>
T_blank == <<>>
T_na == <<"N", "/", "A">>
T_abc == <<"a", "b", "c">>
T_d10 == <<"$", "1", "0">>
T_d5 == <<"$", "5">>
T_d0 == <<"$", "0">>
T_d008 == <<"$", "0", ".", "0", "8">>

InputNetworks(sc) ==
    IF sc = "deployment" THEN {"Ethereum", "Polygon", "Arbitrum"}
    ELSE {"Polygon", "Arbitrum"}

InputContracts(sc) ==
    IF sc = "panda" THEN {"ERC20"} ELSE {"ERC20", "DAO"}

InputFunctions(sc) ==
    IF sc = "deployment" THEN {"deployment"}
    ELSE IF sc = "panda" THEN {"deployment", "mint", "transfer"}
    ELSE {"mint", "transfer"}

InputCosts(sc) ==
    IF sc = "deployment" THEN {T_d10, T_d5, T_d0, T_d008, T_na, T_abc}
    ELSE IF sc = "panda" THEN {T_5, T_10, T_0, T_neg5, T_na, T_d008}
    ELSE {T_5, T_10, T_0, T_blank}

InputRows(sc) ==
    [Network : InputNetworks(sc), Contract : InputContracts(sc),
     Function : InputFunctions(sc), cost : InputCosts(sc)]

Tables(S) == UNION {[1..n -> S] : n \in 0..MaxRows}

Init ==
    /\ script \in Scripts
    /\ fileExists \in BOOLEAN
    /\ csv \in IF fileExists THEN Tables(InputRows(script)) ELSE {<<>>}
    /\ pc = "start"
    /\ exc = ""
    /\ bound = {}
    /\ out = <<>>
    /\ png = <<>>
    /\ df = <<>>
    /\ pivot_data = EmptyPivot
    /\ network_avg = <<>>
    /\ pivot_execution = EmptyPivot
    /\ total_cost_by_function = <<>>
    /\ pivot_deployment = EmptyPivot
    /\ line_data = <<>>
    /\ variation = <<>>
    /\ ethereum_cost_map = <<>>
    /\ comparison_df = <<>>
    /\ formatted_table = <<>>
    /\ total_ethereum_cost = NaN
    /\ average_ethereum_cost = NaN
    /\ network_avg_costs = <<>>
    /\ final_summary_df = <<>>

(* One printed line: fixed text, or a kind with the values it shows. *)
Line(s) == [line |-> s]

(* An exception nobody catches ends the run with a traceback. *)
Raise(e) == pc' = "crashed" /\ exc' = e

PandaVars == <<pivot_execution, total_cost_by_function, pivot_deployment>>
AvgCostVars == <<pivot_data, network_avg>>
ContractVars == <<line_data, variation>>
DeploymentVars == <<ethereum_cost_map, comparison_df, formatted_table,
                    total_ethereum_cost, average_ethereum_cost,
                    network_avg_costs, final_summary_df>>
InputVars == <<script, fileExists, csv>>

(***************************************************************************)
(* hardhat/panda.py: generate_cost_visualizations                          *)
(***************************************************************************)
MSG_PD_NOTFOUND == "Error: output.csv not found. Please ensure the file is in the correct directory."

PD_Load ==
    /\ script = "panda" /\ pc = "start"
    /\ IF fileExists
       THEN /\ df' = ReadCsv(csv)
            /\ bound' = bound \cup {"df"}
            /\ out' = Append(out, Line("CSV file loaded successfully."))
            /\ pc' = "clean"
       ELSE /\ out' = Append(out, Line(MSG_PD_NOTFOUND))
            /\ pc' = "done"
            /\ UNCHANGED <<df, bound>>
    /\ UNCHANGED <<InputVars, exc, png, PandaVars, AvgCostVars, ContractVars,
                   DeploymentVars>>

(* to_numeric(errors='coerce') on 'USD Avg', then dropna on that column. *)
PandaClean(t) ==
    SelectSeq([i \in 1..Len(t) |-> [t[i] EXCEPT !.cost = ToNumericCoerce(@)]],
              LAMBDA r : ~IsNaN(r.cost))

PD_Clean ==
    /\ script = "panda" /\ pc = "clean"
    /\ df' = PandaClean(df)
    /\ pc' = "execution"
    /\ UNCHANGED <<InputVars, exc, bound, out, png, PandaVars, AvgCostVars,
                   ContractVars, DeploymentVars>>

(* ExecutionDf without the filter on Method. *)
ExecutionDf_Unfiltered(t) == t

ExecutionDf(t) == SelectSeq(t, LAMBDA r : r.Function # "deployment")

TotalCostByFunction(t) ==
    LET g == GroupSum2(ExecutionDf(t), "Function", "Network")
    IN  GroupRows(g, DOMAIN g)

(* PD_Execution with the filter applied to df itself instead of a copy. *)
PD_Execution_InPlace ==
    /\ script = "panda" /\ pc = "execution"
    /\ total_cost_by_function' = TotalCostByFunction(df)
    /\ pivot_execution' =
           FillNa(Pivot(TotalCostByFunction(df), "Function", "Network"), Zero)
    /\ bound' = bound \cup {"execution_df", "total_cost_by_function",
                            "pivot_execution"}
    /\ pc' = "plot_execution"
    /\ df' = ExecutionDf(df)
    /\ UNCHANGED <<InputVars, exc, out, png, pivot_deployment,
                   AvgCostVars, ContractVars, DeploymentVars>>

PD_Execution ==
    /\ script = "panda" /\ pc = "execution"
    /\ total_cost_by_function' = TotalCostByFunction(df)
    /\ pivot_execution' =
           FillNa(Pivot(TotalCostByFunction(df), "Function", "Network"), Zero)
    /\ bound' = bound \cup {"execution_df", "total_cost_by_function",
                            "pivot_execution"}
    /\ pc' = "plot_execution"
    /\ UNCHANGED <<InputVars, exc, out, png, df, pivot_deployment,
                   AvgCostVars, ContractVars, DeploymentVars>>

(* DataFrame.plot raises TypeError("no numeric data to plot") on a frame   *)
(* without columns.                                                        *)
PD_PlotExecution ==
    /\ script = "panda" /\ pc = "plot_execution"
    /\ IF pivot_execution.columns = <<>>
       THEN Raise("TypeError") /\ UNCHANGED <<out, png>>
       ELSE /\ png' = Append(png, "total_execution_cost_by_function.png")
            /\ out' = Append(out, Line("Chart 'total_execution_cost_by_function.png' saved successfully."))
            /\ pc' = "deployment"
            /\ UNCHANGED exc
    /\ UNCHANGED <<InputVars, bound, df, PandaVars, AvgCostVars,
                   ContractVars, DeploymentVars>>

DeploymentDf(t) == SelectSeq(t, LAMBDA r : r.Function = "deployment")

PD_Deployment ==
    /\ script = "panda" /\ pc = "deployment"
    /\ IF PivotRaises(DeploymentDf(df), "Contract", "Network")
       THEN /\ Raise("ValueError")
            /\ bound' = bound \cup {"deployment_df"}
            /\ UNCHANGED pivot_deployment
       ELSE /\ pivot_deployment' =
                   FillNa(Pivot(DeploymentDf(df), "Contract", "Network"), Zero)
            /\ bound' = bound \cup {"deployment_df", "pivot_deployment"}
            /\ pc' = "plot_deployment"
            /\ UNCHANGED exc
    /\ UNCHANGED <<InputVars, out, png, df, pivot_execution,
                   total_cost_by_function, AvgCostVars, ContractVars,
                   DeploymentVars>>

PD_PlotDeployment ==
    /\ script = "panda" /\ pc = "plot_deployment"
    /\ IF pivot_deployment.columns = <<>>
       THEN Raise("TypeError") /\ UNCHANGED <<out, png>>
       ELSE /\ png' = Append(png, "deployment_cost_by_contract.png")
            /\ out' = Append(out, Line("Chart 'deployment_cost_by_contract.png' saved successfully."))
            /\ pc' = "done"
            /\ UNCHANGED exc
    /\ UNCHANGED <<InputVars, bound, df, PandaVars, AvgCostVars,
                   ContractVars, DeploymentVars>>

(***************************************************************************)
(* Sorting and extrema.                                                    *)
(***************************************************************************)
Perms(K) ==
    {s \in [1..Cardinality(K) -> K] :
        \A i, j \in 1..Cardinality(K) : i # j => s[i] # s[j]}

Ascending(v) ==
    \A i \in 1..(Len(v) - 1) :
        IsNaN(v[i + 1]) \/ (~IsNaN(v[i]) /\ FLe(v[i], v[i + 1]))

(* sort_values() on one column: ascending, NaN last.  The default kind   *)
(* is 'quicksort', which is not stable, so every ascending order of the   *)
(* rows is a possible result.                                              *)
SortRows(rows) ==
    {[i \in 1..Len(rows) |-> rows[q[i]]] :
        q \in {q \in Perms(1..Len(rows)) :
                  Ascending([i \in 1..Len(rows) |-> rows[q[i]].cost])}}

(* The groups of a one-key grouping as rows in ascending key order. *)
GroupSeq(g) ==
    LET keys == SortedLabels(DOMAIN g)
    IN  [i \in 1..Len(keys) |-> [Network |-> keys[i], cost |-> g[keys[i]]]]

(* groupby('Network')[cost].mean().sort_values() *)
SortValues(g) == SortRows(GroupSeq(g))

(* groupby('Network')[cost].mean(): one value per observed network. *)
GroupMeans(t) ==
    [a \in {t[i].Network : i \in 1..Len(t)} |->
        MeanSeq(Costs(SelectSeq(t, LAMBDA r : r.Network = a)))]

HasValid(t) == \E i \in 1..Len(t) : ~IsNaN(t[i].cost)

(* Series.idxmax() / idxmin(): first position of the largest / smallest    *)
(* value, NaN skipped.                                                     *)
IdxMax(t) ==
    CHOOSE i \in 1..Len(t) :
        /\ ~IsNaN(t[i].cost)
        /\ \A j \in 1..Len(t) : IsNaN(t[j].cost) \/ FLe(t[j].cost, t[i].cost)
        /\ \A j \in 1..(i - 1) : IsNaN(t[j].cost) \/ t[j].cost # t[i].cost

IdxMin(t) ==
    CHOOSE i \in 1..Len(t) :
        /\ ~IsNaN(t[i].cost)
        /\ \A j \in 1..Len(t) : IsNaN(t[j].cost) \/ FLe(t[i].cost, t[j].cost)
        /\ \A j \in 1..(i - 1) : IsNaN(t[j].cost) \/ t[j].cost # t[i].cost

(***************************************************************************)
(* data_analysis/avg_cost.py: analyze_gas_costs                            *)
(***************************************************************************)
(* AC_Load without the early return of line 22. *)
AC_Load_NoReturn ==
    /\ script = "avg_cost" /\ pc = "start"
    /\ IF fileExists
       THEN /\ df' = ReadCsv(csv)
            /\ bound' = bound \cup {"df"}
            /\ UNCHANGED out
       ELSE /\ out' = Append(out, Line("Error: The file 'contract.csv' was not found."))
            /\ UNCHANGED <<df, bound>>
    /\ pc' = "merged_chart"
    /\ UNCHANGED <<InputVars, exc, png, PandaVars, AvgCostVars, ContractVars,
                   DeploymentVars>>

AC_Load ==
    /\ script = "avg_cost" /\ pc = "start"
    /\ IF fileExists
       THEN /\ df' = ReadCsv(csv)
            /\ bound' = bound \cup {"df"}
            /\ pc' = "merged_chart"
            /\ UNCHANGED out
       ELSE /\ out' = Append(out, Line("Error: The file 'contract.csv' was not found."))
            /\ pc' = "done"
            /\ UNCHANGED <<df, bound>>
    /\ UNCHANGED <<InputVars, exc, png, PandaVars, AvgCostVars, ContractVars,
                   DeploymentVars>>

(* Lines 36-70.  The loop variable i is bound only when the loop body ran; *)
(* "for j in range(i + 1, ...)" raises UnboundLocalError otherwise.        *)
AC_MergedChart ==
    /\ script = "avg_cost" /\ pc = "merged_chart"
    /\ IF Unique(Column(df, "Contract")) = <<>>
       THEN /\ Raise("UnboundLocalError")
            /\ out' = Append(out, Line("Generating merged 3x2 grid of bar charts..."))
            /\ UNCHANGED <<png, bound>>
       ELSE /\ bound' = bound \cup {"i"}
            /\ png' = Append(png, "merged_contract_cost_comparison.png")
            /\ out' = out \o <<Line("Generating merged 3x2 grid of bar charts..."),
                               Line("Saved merged contract chart")>>
            /\ pc' = "heatmap"
            /\ UNCHANGED exc
    /\ UNCHANGED <<InputVars, df, PandaVars, AvgCostVars, ContractVars,
                   DeploymentVars>>

(* Lines 73-90.  sns.heatmap raises ValueError (zero-size array) on an     *)
(* empty matrix.                                                           *)
AC_Heatmap ==
    /\ script = "avg_cost" /\ pc = "heatmap"
    /\ pivot_data' = PivotTableMean(df, "Function", "Network")
    /\ bound' = bound \cup {"pivot_data"}
    /\ IF PivotTableMean(df, "Function", "Network").index = <<>>
       THEN /\ Raise("ValueError")
            /\ out' = Append(out, Line("Generating cost heatmap..."))
            /\ UNCHANGED png
       ELSE /\ png' = Append(png, "cost_heatmap.png")
            /\ out' = out \o <<Line("Generating cost heatmap..."),
                               Line("Saved heatmap")>>
            /\ pc' = "boxplot"
            /\ UNCHANGED exc
    /\ UNCHANGED <<InputVars, df, network_avg, PandaVars, ContractVars,
                   DeploymentVars>>

(* AC_BoxPlot without the savefig call. *)
AC_BoxPlot_NoSave ==
    /\ script = "avg_cost" /\ pc = "boxplot"
    /\ out' = out \o <<Line("Generating cost distribution box plot..."),
                       Line("Saved box plot")>>
    /\ pc' = "ranking"
    /\ UNCHANGED <<InputVars, exc, bound, df, png, PandaVars, AvgCostVars,
                   ContractVars, DeploymentVars>>

AC_BoxPlot ==
    /\ script = "avg_cost" /\ pc = "boxplot"
    /\ png' = Append(png, "cost_distribution_boxplot.png")
    /\ out' = out \o <<Line("Generating cost distribution box plot..."),
                       Line("Saved box plot")>>
    /\ pc' = "ranking"
    /\ UNCHANGED <<InputVars, exc, bound, df, PandaVars, AvgCostVars,
                   ContractVars, DeploymentVars>>

RankLines(s) ==
    [i \in 1..Len(s) |->
        [line |-> "rank", rank |-> i, network |-> s[i].Network,
         cost |-> s[i].cost]]

AC_Ranking ==
    /\ script = "avg_cost" /\ pc = "ranking"
    /\ \E s \in SortValues(GroupMeans(df)) :
          /\ network_avg' = s
          /\ out' = out \o <<Line("GAS COST STATISTICAL SUMMARY"),
                             Line("1. NETWORK COST EFFICIENCY RANKING (Lowest Average Cost First):")>>
                        \o RankLines(s)
    /\ bound' = bound \cup {"network_avg"}
    /\ pc' = "extremes"
    /\ UNCHANGED <<InputVars, exc, png, df, pivot_data, PandaVars,
                   ContractVars, DeploymentVars>>

RowLine(kind, r) ==
    [line |-> kind, network |-> r.Network, contract |-> r.Contract,
     function |-> r.Function, cost |-> r.cost]

AC_Extremes ==
    /\ script = "avg_cost" /\ pc = "extremes"
    /\ IF HasValid(df)
       THEN /\ out' = out \o <<Line("2. OVERALL MOST & LEAST EXPENSIVE OPERATIONS:"),
                               RowLine("Most Expensive", df[IdxMax(df)]),
                               RowLine("Least Expensive", df[IdxMin(df)])>>
            /\ pc' = "per_network"
            /\ UNCHANGED exc
       ELSE /\ Raise("ValueError")
            /\ out' = Append(out, Line("2. OVERALL MOST & LEAST EXPENSIVE OPERATIONS:"))
    /\ UNCHANGED <<InputVars, bound, png, df, PandaVars, AvgCostVars,
                   ContractVars, DeploymentVars>>

NetworkRows(t, n) == SelectSeq(t, LAMBDA r : r.Network = n)

(* Lines 133-141.  A network whose costs are all NaN has no idxmax label   *)
(* and df.loc[...] raises KeyError.                                        *)
AC_PerNetwork ==
    /\ script = "avg_cost" /\ pc = "per_network"
    /\ LET nets == SortedLabels(Range(Column(df, "Network")))
       IN  IF \A i \in 1..Len(nets) : HasValid(NetworkRows(df, nets[i]))
           THEN /\ out' = out
                      \o <<Line("3. MOST EXPENSIVE OPERATION PER NETWORK:")>>
                      \o [i \in 1..Len(nets) |->
                            RowLine("per network",
                                NetworkRows(df, nets[i])[IdxMax(NetworkRows(df, nets[i]))])]
                      \o <<Line("Analysis complete. All charts have been exported.")>>
                /\ pc' = "done"
                /\ UNCHANGED exc
           ELSE /\ Raise("KeyError")
                /\ out' = Append(out, Line("3. MOST EXPENSIVE OPERATION PER NETWORK:"))
    /\ UNCHANGED <<InputVars, bound, png, df, PandaVars, AvgCostVars,
                   ContractVars, DeploymentVars>>

(***************************************************************************)
(* data_analysis/contract.py: create_line_charts                           *)
(***************************************************************************)
CL_Load ==
    /\ script = "contract" /\ pc = "start"
    /\ IF fileExists
       THEN /\ df' = ReadCsv(csv)
            /\ bound' = bound \cup {"df"}
            /\ pc' = "line_charts"
            /\ UNCHANGED out
       ELSE /\ out' = Append(out, Line("Error: The file 'contract.csv' was not found. Please ensure it is in the same directory."))
            /\ pc' = "done"
            /\ UNCHANGED <<df, bound>>
    /\ UNCHANGED <<InputVars, exc, png, PandaVars, AvgCostVars, ContractVars,
                   DeploymentVars>>

ContractRows(t, c) == SelectSeq(t, LAMBDA r : r.Contract = c)

(* set_index('Function').reindex(functions) raises ValueError ("cannot     *)
(* reindex on an axis with duplicate labels") when a function occurs twice.*)
ReindexRaises(t) ==
    \E i, j \in 1..Len(t) : i # j /\ t[i].Function = t[j].Function

Reindex(t, functions) ==
    [i \in 1..Len(functions) |->
        [Function |-> functions[i],
         cost |-> IF \E j \in 1..Len(t) : t[j].Function = functions[i]
                  THEN t[CHOOSE j \in 1..Len(t) :
                             t[j].Function = functions[i]].cost
                  ELSE NaN]]

(* The series plotted for every (contract, network) pair, lines 33-41. *)
LineData(t) ==
    [p \in Range(Unique(Column(t, "Contract")))
           \X Range(Unique(Column(t, "Network"))) |->
        Reindex(NetworkRows(ContractRows(t, p[1]), p[2]),
                Unique(Column(ContractRows(t, p[1]), "Function")))]

(* The 3x2 grid has six axes; axes[i] for a seventh contract raises        *)
(* IndexError.                                                             *)
GridSize == 6

FirstContracts(t) ==
    LET u == Unique(Column(t, "Contract"))
    IN  SubSeq(u, 1, IF Len(u) > GridSize THEN GridSize ELSE Len(u))

LineDataRaises(t) ==
    \E c \in Range(FirstContracts(t)), n \in Range(Column(t, "Network")) :
        ReindexRaises(NetworkRows(ContractRows(t, c), n))

CL_LineCharts ==
    /\ script = "contract" /\ pc = "line_charts"
    /\ IF LineDataRaises(df)
       THEN /\ Raise("ValueError")
            /\ UNCHANGED <<line_data, bound, png, out>>
       ELSE IF Len(Unique(Column(df, "Contract"))) > GridSize
       THEN /\ Raise("IndexError")
            /\ UNCHANGED <<line_data, bound, png, out>>
       ELSE /\ line_data' = LineData(df)
            /\ bound' = bound \cup {"line_data"}
            /\ png' = Append(png, "merged_contract_costs_line_chart.png")
            /\ out' = Append(out, Line("Successfully generated and saved the line chart"))
            /\ pc' = "stddev"
            /\ UNCHANGED exc
    /\ UNCHANGED <<InputVars, df, variation, PandaVars, AvgCostVars,
                   DeploymentVars>>

(* Sample variance (ddof=1) of the valid entries; fewer than two give NaN. *)
(* pivot.std(axis=1) is its square root.                                   *)
RECURSIVE SumSqDev(_, _)
SumSqDev(s, m) ==
    IF s = <<>> THEN Zero
    ELSE FAdd(FMul(FSub(s[1], m), FSub(s[1], m)), SumSqDev(Tail(s), m))

VarSeq(s) ==
    IF Len(Valid(s)) < 2 THEN NaN
    ELSE FDiv(SumSqDev(Valid(s), MeanSeq(s)), Num(Len(Valid(s)) - 1))

Variation(pv) ==
    [f \in Range(pv.index) |->
        VarSeq([j \in 1..Len(pv.columns) |-> pv.cell[<<f, pv.columns[j]>>]])]

StdDevData(t) ==
    [c \in Range(Unique(Column(t, "Contract"))) |->
        [pivot |-> PivotTableMean(ContractRows(t, c), "Function", "Network"),
         var |-> Variation(PivotTableMean(ContractRows(t, c),
                                          "Function", "Network"))]]

(* Lines 59-81.  Series.plot(kind='bar') raises IndexError on an empty     *)
(* series.                                                                 *)
CL_StdDev ==
    /\ script = "contract" /\ pc = "stddev"
    /\ IF \E c \in DOMAIN StdDevData(df) : StdDevData(df)[c].pivot.index = <<>>
       THEN /\ Raise("IndexError")
            /\ UNCHANGED <<variation, bound, png, out>>
       ELSE /\ variation' = StdDevData(df)
            /\ bound' = bound \cup {"variation"}
            /\ png' = Append(png, "function_cost_variability_stddev_chart.png")
            /\ out' = Append(out, Line("Successfully generated and saved the std deviation chart"))
            /\ pc' = "done"
            /\ UNCHANGED exc
    /\ UNCHANGED <<InputVars, df, line_data, PandaVars, AvgCostVars,
                   DeploymentVars>>

(***************************************************************************)
(* data_analysis/deployment.py: module-level script                        *)
(***************************************************************************)
(* The demonstration table of lines 12-16. *)
DummyData ==
    << [Contract |-> "ERC20", Network |-> "Ethereum", Function |-> "deployment",
        cost |-> <<"$", "5", "5", ".", "2", "0">>],
       [Contract |-> "ERC20", Network |-> "Polygon", Function |-> "deployment",
        cost |-> <<"$", "0", ".", "0", "8">>],
       [Contract |-> "ERC20", Network |-> "Arbitrum", Function |-> "deployment",
        cost |-> <<"$", "0", ".", "9", "5">>],
       [Contract |-> "ERC721", Network |-> "Ethereum", Function |-> "deployment",
        cost |-> <<"$", "1", "2", "0", ".", "5", "0">>],
       [Contract |-> "ERC721", Network |-> "Polygon", Function |-> "deployment",
        cost |-> <<"$", "0", ".", "1", "5">>],
       [Contract |-> "ERC721", Network |-> "Arbitrum", Function |-> "deployment",
        cost |-> <<"$", "1", ".", "5", "0">>],
       [Contract |-> "ERC1155", Network |-> "Ethereum", Function |-> "deployment",
        cost |-> <<"$", "1", "5", "0", ".", "7", "5">>],
       [Contract |-> "ERC1155", Network |-> "Polygon", Function |-> "deployment",
        cost |-> <<"$", "0", ".", "2", "0">>],
       [Contract |-> "ERC1155", Network |-> "Arbitrum", Function |-> "deployment",
        cost |-> <<"$", "2", ".", "1", "0">>],
       [Contract |-> "Proxy", Network |-> "Ethereum", Function |-> "deployment",
        cost |-> <<"$", "8", "0", ".", "0", "0">>],
       [Contract |-> "Proxy", Network |-> "Polygon", Function |-> "deployment",
        cost |-> <<"$", "0", ".", "1", "2">>],
       [Contract |-> "Proxy", Network |-> "Arbitrum", Function |-> "deployment",
        cost |-> <<"$", "1", ".", "2", "0">>],
       [Contract |-> "Vesting", Network |-> "Ethereum", Function |-> "deployment",
        cost |-> <<"$", "9", "5", ".", "3", "0">>],
       [Contract |-> "Vesting", Network |-> "Polygon", Function |-> "deployment",
        cost |-> <<"$", "0", ".", "1", "4">>],
       [Contract |-> "Vesting", Network |-> "Arbitrum", Function |-> "deployment",
        cost |-> <<"$", "1", ".", "3", "5">>],
       [Contract |-> "DAO", Network |-> "Ethereum", Function |-> "deployment",
        cost |-> <<"$", "2", "5", "0", ".", "0", "0">>],
       [Contract |-> "DAO", Network |-> "Polygon", Function |-> "deployment",
        cost |-> <<"$", "0", ".", "3", "0">>],
       [Contract |-> "DAO", Network |-> "Arbitrum", Function |-> "deployment",
        cost |-> <<"$", "3", ".", "0", "0">>] >>

(* pd.DataFrame(data): every cost cell is the text given. *)
DataFrameOf(rows) ==
    [i \in 1..Len(rows) |-> [rows[i] EXCEPT !.cost = Str(rows[i].cost)]]

(* Lines 8-17: a missing file is replaced by the demonstration table and   *)
(* the script goes on.                                                     *)
DP_Load ==
    /\ script = "deployment" /\ pc = "start"
    /\ IF fileExists
       THEN /\ df' = ReadCsv(csv)
            /\ UNCHANGED out
       ELSE /\ out' = Append(out, Line("deploymentgasestimation.csv not found. Creating a dummy dataframe for demonstration."))
            /\ df' = DataFrameOf(DummyData)
    /\ bound' = bound \cup {"df"}
    /\ pc' = "clean"
    /\ UNCHANGED <<InputVars, exc, png, PandaVars, AvgCostVars, ContractVars,
                   DeploymentVars>>

(* Line 21: replace('$', '') then astype(float) on the whole column. *)
DeploymentCleanRaises(t) ==
    \E i \in 1..Len(t) : AsFloatRaises(StripDollar(t[i].cost))

DeploymentClean(t) ==
    [i \in 1..Len(t) |-> [t[i] EXCEPT !.cost = AsFloat(StripDollar(@))]]

DP_Clean ==
    /\ script = "deployment" /\ pc = "clean"
    /\ IF DeploymentCleanRaises(df)
       THEN Raise("ValueError") /\ UNCHANGED df
       ELSE df' = DeploymentClean(df) /\ pc' = "eth_summary" /\ UNCHANGED exc
    /\ UNCHANGED <<InputVars, bound, out, png, PandaVars, AvgCostVars,
                   ContractVars, DeploymentVars>>

(* f"{x:,.kf}": the value rounded to k decimals, or the text nan / inf. *)
RoundHalfEven(n, d) ==
    LET q == n \div d
        r == n % d
    IN  IF 2 * r < d THEN q
        ELSE IF 2 * r > d THEN q + 1
        ELSE IF q % 2 = 0 THEN q ELSE q + 1

Fmt(x, k) ==
    IF IsNaN(x) THEN [text |-> "nan", dec |-> k, units |-> 0]
    ELSE IF IsInf(x)
         THEN [text |-> IF x.n > 0 THEN "inf" ELSE "-inf", dec |-> k, units |-> 0]
    ELSE [text |-> "fixed", dec |-> k,
          units |-> (x.n \div x.d) * Pow10(k)
                    + RoundHalfEven((x.n % x.d) * Pow10(k), x.d)]

EthereumDf(t) == SelectSeq(t, LAMBDA r : r.Network = "Ethereum")

(* Lines 26-35. *)
DP_EthSummary ==
    /\ script = "deployment" /\ pc = "eth_summary"
    /\ total_ethereum_cost' = SumSeq(Costs(EthereumDf(df)))
    /\ average_ethereum_cost' = MeanSeq(Costs(EthereumDf(df)))
    /\ bound' = bound \cup {"ethereum_df", "total_ethereum_cost",
                            "average_ethereum_cost"}
    /\ out' = out \o
          <<Line("--- Ethereum Deployment Cost Summary ---"),
            [line |-> "Total Estimated Cost for all contracts on Ethereum",
             value |-> Fmt(SumSeq(Costs(EthereumDf(df))), 2)],
            [line |-> "Average Estimated Cost for a contract on Ethereum",
             value |-> Fmt(MeanSeq(Costs(EthereumDf(df))), 2)]>>
    /\ pc' = "compare"
    /\ UNCHANGED <<InputVars, exc, png, df, PandaVars, AvgCostVars,
                   ContractVars, ethereum_cost_map, comparison_df,
                   formatted_table, network_avg_costs, final_summary_df>>

(* set_index('Contract')[cost].to_dict(): a later row of a contract        *)
(* replaces an earlier one.                                                *)
EthereumCostMap(t) ==
    LET e == EthereumDf(t)
    IN  [c \in Range(Column(e, "Contract")) |->
            e[CHOOSE i \in 1..Len(e) :
                  /\ e[i].Contract = c
                  /\ \A j \in (i + 1)..Len(e) : e[j].Contract # c].cost]

OtherDf(t) == SelectSeq(t, LAMBDA r : r.Network # "Ethereum")

(* Series.map(dict): a key the dict lacks gives NaN. *)
MapGet(m, c) == IF c \in DOMAIN m THEN m[c] ELSE NaN

(* Discount with the operands exchanged. *)
Discount_Swapped(eth, cost) == FSub(cost, eth)

Discount(eth, cost) == FSub(eth, cost)

DiscountPct(eth, cost) == FMul(FDiv(Discount(eth, cost), eth), Num(100))

(* Lines 42-49. *)
ComparisonDf(t, m) ==
    LET o == OtherDf(t)
    IN  [i \in 1..Len(o) |->
            [Contract |-> o[i].Contract, Network |-> o[i].Network,
             cost |-> o[i].cost,
             eth |-> MapGet(m, o[i].Contract),
             disc |-> Discount(MapGet(m, o[i].Contract), o[i].cost),
             pct |-> DiscountPct(MapGet(m, o[i].Contract), o[i].cost)]]

DP_Compare ==
    /\ script = "deployment" /\ pc = "compare"
    /\ ethereum_cost_map' = EthereumCostMap(df)
    /\ comparison_df' = ComparisonDf(df, EthereumCostMap(df))
    /\ bound' = bound \cup {"ethereum_cost_map", "comparison_df"}
    /\ pc' = "print_comparison"
    /\ UNCHANGED <<InputVars, exc, out, png, df, PandaVars, AvgCostVars,
                   ContractVars, formatted_table, total_ethereum_cost,
                   average_ethereum_cost, network_avg_costs,
                   final_summary_df>>

CostLess(a, b) == (~IsNaN(a) /\ IsNaN(b)) \/ FLt(a, b)

ComparisonLess(r1, r2) ==
    \/ LabelLt(r1.Contract, r2.Contract)
    \/ (r1.Contract = r2.Contract /\ CostLess(r1.cost, r2.cost))

(* sort_values(by=['Contract', cost]): a stable sort on two columns. *)
InsertRow(s, x) ==
    IF \E i \in 1..Len(s) : ComparisonLess(x, s[i])
    THEN LET k == CHOOSE i \in 1..Len(s) :
                      /\ ComparisonLess(x, s[i])
                      /\ \A j \in 1..(i - 1) : ~ComparisonLess(x, s[j])
         IN  SubSeq(s, 1, k - 1) \o <<x>> \o SubSeq(s, k, Len(s))
    ELSE Append(s, x)

RECURSIVE SortComparison(_)
SortComparison(t) ==
    IF t = <<>> THEN <<>>
    ELSE InsertRow(SortComparison(SubSeq(t, 1, Len(t) - 1)), t[Len(t)])

(* Lines 54-66: sorted, then every number replaced by its formatted text. *)
FormattedTable(t) ==
    LET s == SortComparison(t)
    IN  [i \in 1..Len(s) |->
            [Contract |-> s[i].Contract, Network |-> s[i].Network,
             cost |-> Fmt(s[i].cost, 4), eth |-> Fmt(s[i].eth, 2),
             disc |-> Fmt(s[i].disc, 2), pct |-> Fmt(s[i].pct, 2)]]

DP_PrintComparison ==
    /\ script = "deployment" /\ pc = "print_comparison"
    /\ formatted_table' = FormattedTable(comparison_df)
    /\ bound' = bound \cup {"formatted_table"}
    /\ out' = out \o
          <<Line("--- Deployment Cost Comparison vs. Ethereum ---"),
            [line |-> "formatted_table", rows |-> FormattedTable(comparison_df)]>>
    /\ pc' = "bar_charts"
    /\ UNCHANGED <<InputVars, exc, png, df, PandaVars, AvgCostVars,
                   ContractVars, ethereum_cost_map, comparison_df,
                   total_ethereum_cost, average_ethereum_cost,
                   network_avg_costs, final_summary_df>>

(* Lines 75-126. *)
DP_BarCharts ==
    /\ script = "deployment" /\ pc = "bar_charts"
    /\ bound' = bound \cup {"df_filtered"}
    /\ IF Len(Unique(Column(OtherDf(df), "Contract"))) > GridSize
       THEN Raise("IndexError") /\ UNCHANGED png
       ELSE /\ png' = Append(png, "deployment_costs_bar_charts.png")
            /\ pc' = "line_charts"
            /\ UNCHANGED exc
    /\ UNCHANGED <<InputVars, out, df, PandaVars, AvgCostVars, ContractVars,
                   DeploymentVars>>

(* Lines 129-174. *)
DP_LineCharts ==
    /\ script = "deployment" /\ pc = "line_charts"
    /\ png' = Append(png, "deployment_costs_line_charts.png")
    /\ pc' = "summary_chart"
    /\ UNCHANGED <<InputVars, exc, bound, out, df, PandaVars, AvgCostVars,
                   ContractVars, DeploymentVars>>

(* Lines 177-227.  ax2.boxplot([], labels=[]) raises ValueError: an empty  *)
(* data list is one empty column and does not match zero labels.           *)
DP_SummaryChart ==
    /\ script = "deployment" /\ pc = "summary_chart"
    /\ \E s \in SortValues(GroupMeans(OtherDf(df))) : network_avg_costs' = s
    /\ bound' = bound \cup {"network_avg_costs"}
    /\ IF OtherDf(df) = <<>>
       THEN Raise("ValueError") /\ UNCHANGED png
       ELSE /\ png' = Append(png, "deployment_costs_summary.png")
            /\ pc' = "summary"
            /\ UNCHANGED exc
    /\ UNCHANGED <<InputVars, out, df, PandaVars, AvgCostVars, ContractVars,
                   ethereum_cost_map, comparison_df, formatted_table,
                   total_ethereum_cost, average_ethereum_cost,
                   final_summary_df>>

(* Lines 233-244: one row per non-Ethereum network, then Ethereum's row. *)
SummaryDf(avgs, eth) ==
    [i \in 1..Len(avgs) |->
        [Network |-> avgs[i].Network, cost |-> avgs[i].cost,
         diff |-> FSub(eth, avgs[i].cost),
         pct |-> FMul(FDiv(FSub(eth, avgs[i].cost), eth), Num(100))]]

EthRow(eth) == [Network |-> "Ethereum", cost |-> eth, diff |-> Zero, pct |-> Zero]

FormattedSummary(t) ==
    [i \in 1..Len(t) |->
        [Network |-> t[i].Network, cost |-> Fmt(t[i].cost, 6),
         diff |-> Fmt(t[i].diff, 6), pct |-> Fmt(t[i].pct, 2)]]

(* Lines 230-257. *)
DP_Summary ==
    /\ script = "deployment" /\ pc = "summary"
    /\ \E s \in SortRows(Append(SummaryDf(network_avg_costs, average_ethereum_cost),
                                EthRow(average_ethereum_cost))) :
          /\ final_summary_df' = s
          /\ out' = out \o
                <<Line("=== DEPLOYMENT COST ANALYSIS SUMMARY ==="),
                  Line("--- Average Deployment Cost by Network (Compared to Ethereum) ---"),
                  [line |-> "final_summary_df", rows |-> FormattedSummary(s)]>>
    /\ bound' = bound \cup {"summary_df", "final_summary_df"}
    /\ pc' = "cheapest"
    /\ UNCHANGED <<InputVars, exc, png, df, PandaVars, AvgCostVars,
                   ContractVars, ethereum_cost_map, comparison_df,
                   formatted_table, total_ethereum_cost,
                   average_ethereum_cost, network_avg_costs>>

OptionLine(kind, r, k) ==
    [line |-> kind, contract |-> r.Contract, network |-> r.Network,
     cost |-> Fmt(r.cost, k)]

(* The contracts printed before the first one without a valid cost; for    *)
(* that one idxmin gives no label and .loc raises KeyError.                *)
Printable(t, contracts) ==
    IF \E i \in 1..Len(contracts) : ~HasValid(ContractRows(t, contracts[i]))
    THEN SubSeq(contracts, 1,
                (CHOOSE i \in 1..Len(contracts) :
                    /\ ~HasValid(ContractRows(t, contracts[i]))
                    /\ \A j \in 1..(i - 1) :
                           HasValid(ContractRows(t, contracts[j]))) - 1)
    ELSE contracts

(* Lines 260-264. *)
DP_Cheapest ==
    /\ script = "deployment" /\ pc = "cheapest"
    /\ LET o == OtherDf(df)
           contracts == Unique(Column(o, "Contract"))
           p == Printable(o, contracts)
       IN  /\ out' = out
                 \o <<Line("Cheapest deployment options by contract (Non-Ethereum):")>>
                 \o [i \in 1..Len(p) |->
                       OptionLine("cheapest",
                           ContractRows(o, p[i])[IdxMin(ContractRows(o, p[i]))], 6)]
           /\ IF p = contracts
              THEN pc' = "most_expensive" /\ UNCHANGED exc
              ELSE Raise("KeyError")
    /\ UNCHANGED <<InputVars, bound, png, df, PandaVars, AvgCostVars,
                   ContractVars, DeploymentVars>>

(* Lines 266-270. *)
DP_MostExpensive ==
    /\ script = "deployment" /\ pc = "most_expensive"
    /\ LET o == OtherDf(df)
           contracts == Unique(Column(o, "Contract"))
           p == Printable(o, contracts)
       IN  /\ out' = out
                 \o <<Line("Most expensive deployment options by contract (Non-Ethereum):")>>
                 \o [i \in 1..Len(p) |->
                       OptionLine("most expensive",
                           ContractRows(o, p[i])[IdxMax(ContractRows(o, p[i]))], 2)]
           /\ IF p = contracts
              THEN pc' = "done" /\ UNCHANGED exc
              ELSE Raise("KeyError")
    /\ UNCHANGED <<InputVars, bound, png, df, PandaVars, AvgCostVars,
                   ContractVars, DeploymentVars>>

Next ==
    \/ PD_Load
    \/ PD_Clean
    \/ PD_Execution
    \/ PD_PlotExecution
    \/ PD_Deployment
    \/ PD_PlotDeployment
    \/ AC_Load
    \/ AC_MergedChart
    \/ AC_Heatmap
    \/ AC_BoxPlot
    \/ AC_Ranking
    \/ AC_Extremes
    \/ AC_PerNetwork
    \/ CL_Load
    \/ CL_LineCharts
    \/ CL_StdDev
    \/ DP_Load
    \/ DP_Clean
    \/ DP_EthSummary
    \/ DP_Compare
    \/ DP_PrintComparison
    \/ DP_BarCharts
    \/ DP_LineCharts
    \/ DP_SummaryChart
    \/ DP_Summary
    \/ DP_Cheapest
    \/ DP_MostExpensive

Spec == Init /\ [][Next]_vars

(***************************************************************************)
(* Properties.                                                             *)
(***************************************************************************)
(* Sum of the costs of the rows of t at the positions in S. *)
RECURSIVE SumOver(_, _)
SumOver(t, S) ==
    IF S = {} THEN Zero
    ELSE LET i == CHOOSE i \in S : \A j \in S : i <= j
         IN  FAdd(t[i].cost, SumOver(t, S \ {i}))

(* The deployment script raised in its cleaning step (line 21). *)
CrashedInClean ==
    script = "deployment" /\ pc = "crashed" /\ "ethereum_df" \notin bound

CleanFinished ==
    /\ script \in {"panda", "deployment"}
    /\ pc \notin {"start", "clean"}
    /\ ~CrashedInClean

MissingFileEndsEarly ==
    pc = "done" /\ Len(out) = 1 /\ png = <<>> /\ bound = {}

Coercible(sc, t) ==
    /\ t \notin NaTokens
    /\ IsFloatText(IF sc = "deployment" THEN SelectSeq(t, LAMBDA ch : ch # "$")
                   ELSE t)

CoercedRows(sc, rows) ==
    LET ok == SelectSeq(rows, LAMBDA r : Coercible(sc, r.cost))
    IN  [i \in 1..Len(ok) |->
            [ok[i] EXCEPT !.cost =
                FloatOf(SelectSeq(ok[i].cost, LAMBDA ch : ch # "$"))]]

(* C2: cleaning recovers per row: a cost text that is not a number never   *)
(* stops the run, its row is dropped (not kept, not turned into 0), and    *)
(* the table holds exactly the other rows with their numbers; "$0.08" in   *)
(* the deployment table becomes 0.08.                                      *)
C2_PerRowRecovery ==
    /\ ~CrashedInClean
    /\ (fileExists /\ CleanFinished) =>
          /\ df = CoercedRows(script, csv)
          /\ \A i \in 1..Len(csv) :
                (script = "deployment" /\ csv[i].cost = T_d008) =>
                    \E j \in 1..Len(df) : df[j].cost = Rat(8, 100)

(* C3: after cleaning every remaining row has a numeric cost >= 0. *)
C3_CleanedCostsNonNegative ==
    CleanFinished =>
        \A i \in 1..Len(df) : IsNum(df[i].cost) /\ df[i].cost.n >= 0

EthereumPositions(t, c) ==
    {i \in 1..Len(t) : t[i].Network = "Ethereum" /\ t[i].Contract = c}

(* C4: rows that share a key are accepted and combined by sum or mean:     *)
(* the deployment pivot of panda.py and the reindex of contract.py do not  *)
(* fail on them, and the Ethereum cost map of deployment.py holds the sum  *)
(* or the mean of a contract's Ethereum rows.                              *)
C4_DuplicateKeysCombined ==
    /\ ~(script = "panda" /\ pc = "crashed" /\ exc = "ValueError")
    /\ ~(script = "contract" /\ pc = "crashed" /\ exc = "ValueError")
    /\ (script = "deployment" /\ "ethereum_cost_map" \in bound) =>
          \A c \in DOMAIN ethereum_cost_map :
              \/ ethereum_cost_map[c] = SumOver(df, EthereumPositions(df, c))
              \/ ethereum_cost_map[c] =
                     FDiv(SumOver(df, EthereumPositions(df, c)),
                          Num(Cardinality(EthereumPositions(df, c))))

(* The valid execution rows of the input file that belong to a group. *)
GroupPositions(m, n) ==
    {i \in 1..Len(csv) : /\ csv[i].Function = m /\ csv[i].Network = n
                         /\ Coercible("panda", csv[i].cost)}

CsvValues == [i \in 1..Len(csv) |-> [cost |-> FloatOf(csv[i].cost)]]

(* C5: in panda.py the sum of every (Method, Network) group of execution   *)
(* rows is the arithmetic sum of exactly the valid rows of the input with  *)
(* that Method and Network; there is one group per such key and none for   *)
(* 'deployment'.                                                           *)
C5_GroupSums ==
    (script = "panda" /\ "total_cost_by_function" \in bound) =>
        /\ \A i \in 1..Len(total_cost_by_function) :
              LET g == total_cost_by_function[i]
              IN  /\ g.Function # "deployment"
                  /\ GroupPositions(g.Function, g.Network) # {}
                  /\ g.cost = SumOver(CsvValues,
                                      GroupPositions(g.Function, g.Network))
                  /\ pivot_execution.cell[<<g.Function, g.Network>>] = g.cost
        /\ \A m \in InputFunctions("panda") \ {"deployment"},
              n \in InputNetworks("panda") :
              GroupPositions(m, n) # {} =>
                  Cardinality({i \in 1..Len(total_cost_by_function) :
                      /\ total_cost_by_function[i].Function = m
                      /\ total_cost_by_function[i].Network = n}) = 1

C5_Witness ==
    /\ script = "panda" /\ "total_cost_by_function" \in bound
    /\ Len(csv) = 2
    /\ \E i \in 1..Len(total_cost_by_function) :
          /\ total_cost_by_function[i].cost = Num(15)
          /\ Cardinality(GroupPositions(total_cost_by_function[i].Function,
                                        total_cost_by_function[i].Network)) = 2

FirstPosition(t, n) ==
    CHOOSE i \in 1..Len(t) :
        t[i].Network = n /\ \A j \in 1..(i - 1) : t[j].Network # n

(* s ranks the networks of table t: total, ascending and stable. *)
RankingOf(s, t) ==
    /\ {s[i].Network : i \in 1..Len(s)} = Range(Column(t, "Network"))
    /\ Len(s) = Cardinality(Range(Column(t, "Network")))
    /\ \A i \in 1..(Len(s) - 1) : FLe(s[i].cost, s[i + 1].cost)
    /\ \A i, j \in 1..Len(s) :
          (i < j /\ s[i].cost = s[j].cost) =>
              FirstPosition(t, s[i].Network) < FirstPosition(t, s[j].Network)

AllNumeric(t) == \A i \in 1..Len(t) : IsNum(t[i].cost)

(* C6: the network ranking gives ranks 1..N to the N networks once each,   *)
(* in ascending order of mean, and networks with equal means keep their    *)
(* input order (stated for tables whose costs are all numbers).            *)
C6_RankingTotalOrderedStable ==
    /\ (script = "avg_cost" /\ "network_avg" \in bound /\ AllNumeric(df)) =>
          RankingOf(network_avg, df)
    /\ (/\ script = "deployment" /\ "network_avg_costs" \in bound
        /\ AllNumeric(df)) =>
          RankingOf(network_avg_costs, OtherDf(df))

HasRow(t, rk, ck, p) ==
    \E i \in 1..Len(t) : t[i][rk] = p[1] /\ t[i][ck] = p[2]

NoDataMarked(pv, t, rk, ck) ==
    \A p \in DOMAIN pv.cell : ~HasRow(t, rk, ck, p) => IsNaN(pv.cell[p])

(* C7: in every pivot matrix a cell without an input row holds a no-data   *)
(* marker (NaN), which a true aggregate of 0 never is.                     *)
C7_NoDataMarker ==
    /\ (script = "avg_cost" /\ "pivot_data" \in bound) =>
          NoDataMarked(pivot_data, df, "Function", "Network")
    /\ (script = "contract" /\ "variation" \in bound) =>
          \A c \in DOMAIN variation :
              NoDataMarked(variation[c].pivot, ContractRows(df, c),
                           "Function", "Network")
    /\ (script = "panda" /\ "pivot_execution" \in bound) =>
          NoDataMarked(pivot_execution, ExecutionDf(df), "Function", "Network")
    /\ (script = "panda" /\ "pivot_deployment" \in bound) =>
          NoDataMarked(pivot_deployment, DeploymentDf(df), "Contract", "Network")

CellPositions(t, rk, ck, p) ==
    {i \in 1..Len(t) : t[i][rk] = p[1] /\ t[i][ck] = p[2]}

ValidPositions(t, S) == {i \in S : ~IsNaN(t[i].cost)}

(* Filter the table to one key pair and aggregate directly. *)
DirectSum(t, rk, ck, p) ==
    SumOver(t, ValidPositions(t, CellPositions(t, rk, ck, p)))

DirectMean(t, rk, ck, p) ==
    IF ValidPositions(t, CellPositions(t, rk, ck, p)) = {} THEN NaN
    ELSE FDiv(DirectSum(t, rk, ck, p),
              Num(Cardinality(ValidPositions(t, CellPositions(t, rk, ck, p)))))

(* C8: every cell read back from a pivot matrix equals the aggregate of    *)
(* the table rows with that row key and column key: the mean in            *)
(* avg_cost.py and contract.py, the sum in panda.py.                       *)
C8_PivotRoundTrip ==
    /\ (script = "avg_cost" /\ "pivot_data" \in bound) =>
          \A p \in DOMAIN pivot_data.cell :
              pivot_data.cell[p] = DirectMean(df, "Function", "Network", p)
    /\ (script = "contract" /\ "variation" \in bound) =>
          \A c \in DOMAIN variation :
              \A p \in DOMAIN variation[c].pivot.cell :
                  variation[c].pivot.cell[p] =
                      DirectMean(ContractRows(df, c), "Function", "Network", p)
    /\ (script = "panda" /\ "pivot_execution" \in bound) =>
          \A p \in DOMAIN pivot_execution.cell :
              pivot_execution.cell[p] = DirectSum(df, "Function", "Network", p)

C8_Witness ==
    /\ script = "avg_cost" /\ "pivot_data" \in bound
    /\ \E p \in DOMAIN pivot_data.cell :
          /\ pivot_data.cell[p] = Rat(15, 2)
          /\ Cardinality(CellPositions(df, "Function", "Network", p)) = 2

LastEthereum(t, c) ==
    CHOOSE i \in EthereumPositions(t, c) :
        \A j \in EthereumPositions(t, c) : j <= i

OtherPositions(t) == {i \in 1..Len(t) : t[i].Network # "Ethereum"}

(* C9: the comparison has one row per non-Ethereum row of the table, and   *)
(* where the contract has an Ethereum entry e (the last one listed) and    *)
(* cost c: Ethereum Cost = e, Discount (USD) + c = e and, for numbers     *)
(* with e # 0, Discount (%) * e = 100 * Discount (USD); 10 against 5 gives *)
(* 5 and 50.  With e = 0 the quotient is no finite number.                 *)
C9_Discounts ==
    (script = "deployment" /\ "comparison_df" \in bound) =>
        /\ Len(comparison_df) = Cardinality(OtherPositions(df))
        /\ \A i \in 1..Len(comparison_df) :
              LET r == comparison_df[i]
                  e == df[LastEthereum(df, r.Contract)].cost
              IN  (EthereumPositions(df, r.Contract) # {}) =>
                     /\ r.eth = e
                     /\ (IsNum(e) /\ IsNum(r.cost)) =>
                           /\ IsNum(r.disc)
                           /\ FAdd(r.disc, r.cost) = e
                           /\ e.n # 0 =>
                                 /\ IsNum(r.pct)
                                 /\ FMul(r.pct, e) = FMul(Num(100), r.disc)
                           /\ e.n = 0 => ~IsNum(r.pct)
                     /\ (IsNaN(e) \/ IsNaN(r.cost)) =>
                           IsNaN(r.disc) /\ IsNaN(r.pct)

C9_Witness ==
    /\ script = "deployment" /\ "comparison_df" \in bound
    /\ \E i \in 1..Len(comparison_df) :
          /\ comparison_df[i].eth = Num(10)
          /\ comparison_df[i].cost = Num(5)
          /\ comparison_df[i].disc = Num(5)
          /\ comparison_df[i].pct = Num(50)

MissingBaselineCount ==
    Cardinality({i \in OtherPositions(df) :
                    EthereumPositions(df, df[i].Contract) = {}})

(* C10: a non-Ethereum row whose contract has no Ethereum row is absent    *)
(* from the comparison table, and the number of rows left out for that     *)
(* reason is printed.                                                      *)
C10_MissingBaselineExcluded ==
    (/\ script = "deployment" /\ "formatted_table" \in bound
     /\ MissingBaselineCount > 0) =>
        /\ \A i \in 1..Len(formatted_table) :
              EthereumPositions(df, formatted_table[i].Contract) # {}
        /\ Len(formatted_table)
             = Cardinality(OtherPositions(df)) - MissingBaselineCount
        /\ \E i \in 1..Len(out) :
              /\ "count" \in DOMAIN out[i]
              /\ out[i].count = MissingBaselineCount

NonFiniteText == {"nan", "inf", "-inf"}

(* C11: with a baseline of exactly zero (a contract's Ethereum cost in the *)
(* comparison, Ethereum's average in the network summary) the percentage   *)
(* is the sentinel 'undefined': the run does not fail, and the printed     *)
(* tables show neither inf nor nan for it.                                 *)
C11_ZeroBaselineSentinel ==
    /\ (script = "deployment" /\ "formatted_table" \in bound) =>
          \A i \in 1..Len(formatted_table) :
              MapGet(ethereum_cost_map, formatted_table[i].Contract) = Zero =>
                  /\ formatted_table[i].pct.text = "undefined"
                  /\ formatted_table[i].pct.text \notin NonFiniteText
    /\ (/\ script = "deployment" /\ "final_summary_df" \in bound
        /\ average_ethereum_cost = Zero) =>
          \A i \in 1..Len(final_summary_df) :
              final_summary_df[i].Network # "Ethereum" =>
                  /\ FormattedSummary(final_summary_df)[i].pct.text = "undefined"
                  /\ FormattedSummary(final_summary_df)[i].pct.text
                         \notin NonFiniteText

(* The table is loaded (and cleaned, where the script cleans). *)
TableReady ==
    /\ fileExists /\ "df" \in bound
    /\ script \in {"panda", "deployment"} => CleanFinished

PrintsNaN(l) ==
    \/ ("value" \in DOMAIN l /\ l.value.text = "nan")
    \/ ("cost" \in DOMAIN l /\ l.cost = NaN)

(* C12: with no row left after loading and cleaning the run reaches        *)
(* its end: no step raises an unhandled exception, no summary line shows   *)
(* nan, and the finished run has reported 'no data'.                       *)
C12_EmptyTableNoData ==
    (TableReady /\ Len(df) = 0) =>
        /\ pc # "crashed"
        /\ \A i \in 1..Len(out) : ~PrintsNaN(out[i])
        /\ pc = "done" => \E i \in 1..Len(out) : out[i].line = "no data"

(* C13: once the table is loaded, and outside the cleaning step, no step   *)
(* of a run changes it: every grouping, pivot, ranking, extremum and       *)
(* comparison step leaves the rows and cells of df as they were.           *)
C13_AggregationKeepsTable ==
    [][("df" \in bound /\ pc # "clean") => df' = df]_vars

(* A finished panda.py run over a table with a deployment row and another  *)
(* row: both filters and both pivots have read df, which is still the      *)
(* cleaned table.                                                          *)
C13_Witness ==
    /\ script = "panda" /\ pc = "done"
    /\ Len(df) = 2
    /\ Len(ExecutionDf(df)) = 1
    /\ df = PandaClean(ReadCsv(csv))
    /\ Len(png) = 2

(* The lines of the output that show a computed figure. *)
Reports(o) == SelectSeq(o, LAMBDA l : DOMAIN l # {"line"})

HasLine(o, kind) == \E i \in 1..Len(o) : o[i].line = kind

LoadedAndCleaned ==
    /\ "df" \in bound
    /\ pc \notin {"start", "clean"}
    /\ ~CrashedInClean

(* C14, as stated: a step that prints a summary figure or writes a PNG     *)
(* starts after loading and cleaning have finished, and once a PNG is      *)
(* written no further summary figure is printed.                           *)
C14_ReportBeforeRender ==
    [][/\ (Reports(out') # Reports(out) \/ png' # png) => LoadedAndCleaned
       /\ png # <<>> => Reports(out') = Reports(out)]_vars

(* C14, amended: no summary figure is printed and no PNG is written before *)
(* loading and cleaning have finished; avg_cost.py prints its summary      *)
(* after its three PNGs; deployment.py prints the Ethereum summary and the *)
(* comparison table before its first PNG and the final summary after its   *)
(* third; panda.py and contract.py print no summary figure.                *)
C14_PhaseOrder ==
    /\ (Reports(out) # <<>> \/ png # <<>>) => LoadedAndCleaned
    /\ script = "avg_cost" => (Reports(out) # <<>> => Len(png) = 3)
    /\ script = "deployment" =>
          /\ png # <<>> =>
                /\ HasLine(out, "Average Estimated Cost for a contract on Ethereum")
                /\ HasLine(out, "formatted_table")
          /\ HasLine(out, "final_summary_df") => Len(png) = 3
    /\ script \in {"panda", "contract"} => Reports(out) = <<>>

C14_Witness ==
    /\ script = "avg_cost" /\ pc = "done"
    /\ Len(png) = 3
    /\ Len(Reports(out)) >= 3

====
